---- MODULE Spec2Model ----
(***************************************************************************)
(* Model of the containment decision engine of breachit:                   *)
(*   engine/containment.py  static safety checks and structural rules      *)
(*   engine/llm_hook.py     advisory hint                                  *)
(*   app.py                 run_query, log_breach and the submit handler   *)
(*                                                                         *)
(* A query text is a sequence of whitespace-separated tokens: every        *)
(* lexical item of the text (keyword, identifier, literal, comma, operator)*)
(* is written with blanks around it.  On such texts the regular            *)
(* expressions of containment.py act token by token, which is how the      *)
(* operators below compute them.                                           *)
(***************************************************************************)
EXTENDS Integers, Sequences, FiniteSets, TLC

VARIABLES Breaches, response, openConns, nEvals, dataset, cb_args, cb_verdict

vars == <<Breaches, response, openConns, nEvals, dataset, cb_args, cb_verdict>>

\* Number of evaluations a behaviour of Spec performs.
MaxEvals == 2

----------------------------------------------------------------------------
(* Text primitives                                                         *)

\* str.lower() on one token.
Lower(t) ==
  CASE t = "SELECT" -> "select"
    [] t = "FROM"   -> "from"
    [] t = "WHERE"  -> "where"
    [] t = "Users"  -> "users"
    [] t = "Orders" -> "orders"
    [] t = "Products" -> "products"
    [] t = "ID"     -> "id"
    [] t = "DROP"   -> "drop"
    [] t = "UNION"  -> "union"
    [] t = "OR"     -> "or"
    [] OTHER        -> t

LowerSeq(s) == [i \in 1..Len(s) |-> Lower(s[i])]

\* Tokens that IDENT_RE matches entirely.
IdentTokens ==
  { "select", "SELECT", "from", "FROM", "where", "WHERE", "Users", "users",
    "Orders", "Products", "id", "ID", "username", "email", "user_id",
    "created_at", "drop", "DROP", "table", "union", "UNION", "or", "OR",
    "order", "by", "u" }

NumTokens == { "1", "2" }

\* Tokens that \w+ matches entirely.
WordTokens == IdentTokens \cup NumTokens

\* The maximal \w+ runs of a lower-cased token (what \b...\b can match).
Words(t) ==
  IF t \in WordTokens THEN { Lower(t) }
  ELSE CASE t = ":uid"    -> { "uid" }
         [] t = "'alice'" -> { "alice" }
         [] t = "'drop'"  -> { "drop" }
         [] OTHER         -> {}

\* The symbol substrings of a token, for `tok in lowered`.
Symbols(t) ==
  CASE t = ";"  -> { ";" }
    [] t = "--" -> { "--" }
    [] t = "/*" -> { "/*" }
    [] t = "*/" -> { "*/" }
    [] OTHER    -> {}

FORBIDDEN_TOKENS == << ";", "--", "/*", "*/" >>

FORBIDDEN_KEYWORDS ==
  << "drop", "insert", "update", "delete", "alter", "create", "attach",
     "pragma", "vacuum", "grant", "revoke", "truncate" >>

Min(S) == CHOOSE x \in S : \A y \in S : x <= y

\* s[a..b], empty when a > b.
Slice(s, a, b) == [i \in 1..(IF b >= a THEN b - a + 1 ELSE 0) |-> s[a + i - 1]]

TokenReason(tok) ==
  CASE tok = ";"  -> "Forbidden token detected: ;"
    [] tok = "--" -> "Forbidden token detected: --"
    [] tok = "/*" -> "Forbidden token detected: /*"
    [] tok = "*/" -> "Forbidden token detected: */"

KeywordReason(kw) ==
  CASE kw = "drop"     -> "Forbidden keyword detected: drop"
    [] kw = "insert"   -> "Forbidden keyword detected: insert"
    [] kw = "update"   -> "Forbidden keyword detected: update"
    [] kw = "delete"   -> "Forbidden keyword detected: delete"
    [] kw = "alter"    -> "Forbidden keyword detected: alter"
    [] kw = "create"   -> "Forbidden keyword detected: create"
    [] kw = "attach"   -> "Forbidden keyword detected: attach"
    [] kw = "pragma"   -> "Forbidden keyword detected: pragma"
    [] kw = "vacuum"   -> "Forbidden keyword detected: vacuum"
    [] kw = "grant"    -> "Forbidden keyword detected: grant"
    [] kw = "revoke"   -> "Forbidden keyword detected: revoke"
    [] kw = "truncate" -> "Forbidden keyword detected: truncate"

----------------------------------------------------------------------------
(* engine/containment.py                                                   *)

\* SAFE_SELECT_RE.match(s): "select" followed by white space, so by a token.
SafeSelect(s) == Len(s) >= 2 /\ Lower(s[1]) = "select"

\* ";" in s.strip()[1:]
SemicolonAfterFirst(s) == \E i \in 2..Len(s) : ";" \in Symbols(s[i])

\* `tok in lowered`
HasSym(sql, tok) == \E i \in 1..Len(sql) : tok \in Symbols(sql[i])

\* re.search(rf"\b{kw}\b", lowered)
HasWord(sql, kw) == \E i \in 1..Len(sql) : kw \in Words(sql[i])

\* for tok in FORBIDDEN_TOKENS: one reason per token found, in list order
RECURSIVE TokenReasons(_, _)
TokenReasons(sql, i) ==
  IF i > Len(FORBIDDEN_TOKENS) THEN <<>>
  ELSE (IF HasSym(sql, FORBIDDEN_TOKENS[i])
          THEN << TokenReason(FORBIDDEN_TOKENS[i]) >> ELSE <<>>)
       \o TokenReasons(sql, i + 1)

\* for kw in FORBIDDEN_KEYWORDS: one reason per keyword found, in list order
RECURSIVE KeywordReasons(_, _)
KeywordReasons(sql, i) ==
  IF i > Len(FORBIDDEN_KEYWORDS) THEN <<>>
  ELSE (IF HasWord(sql, FORBIDDEN_KEYWORDS[i])
          THEN << KeywordReason(FORBIDDEN_KEYWORDS[i]) >> ELSE <<>>)
       \o KeywordReasons(sql, i + 1)

\* Returns <<ok, reasons>>; all violations accumulate.
basic_static_safety_checks(sql) ==
  LET reasons ==
           (IF ~SafeSelect(sql)
              THEN << "Only single SELECT statements are allowed." >> ELSE <<>>)
        \o TokenReasons(sql, 1)
        \o KeywordReasons(sql, 1)
        \o (IF HasWord(sql, "union") THEN << "UNION is not allowed." >> ELSE <<>>)
        \o (IF SemicolonAfterFirst(sql)
              THEN << "Multiple statements or semicolons are not allowed." >>
              ELSE <<>>)
  IN << Len(reasons) = 0, reasons >>

\* TABLES_EXTRACT_RE.search: the first "from" followed by an identifier, an
\* optional alias word, then optionally "," identifier.
extract_tables(sql) ==
  LET starts == { i \in 1..(Len(sql) - 1) :
                    Lower(sql[i]) = "from" /\ sql[i + 1] \in IdentTokens }
  IN IF starts = {} THEN {}
     ELSE LET i == Min(starts)
              \* position after the optional alias (greedy)
              k == IF i + 2 <= Len(sql) /\ sql[i + 2] \in WordTokens
                     THEN i + 3 ELSE i + 2
              second == IF k + 1 <= Len(sql) /\ sql[k] = ","
                           /\ sql[k + 1] \in IdentTokens
                          THEN { sql[k + 1] } ELSE {}
          IN { sql[i + 1] } \cup second

\* cols.split(","), each part stripped and lower-cased (a part is the
\* sequence of its tokens).
RECURSIVE SplitCommas(_, _, _)
SplitCommas(s, i, cur) ==
  IF i > Len(s) THEN { cur }
  ELSE IF s[i] = "," THEN { cur } \cup SplitCommas(s, i + 1, <<>>)
  ELSE SplitCommas(s, i + 1, Append(cur, Lower(s[i])))

\* SELECT_COLS_RE.search: text between the first "select" and the first
\* following "from" that leaves white space on both sides of it.
extract_columns(sql) ==
  LET sel == { i \in 1..Len(sql) : Lower(sql[i]) = "select" }
  IN IF sel = {} THEN {}
     ELSE LET i == Min(sel)
              froms == { j \in (i + 2)..Len(sql) : Lower(sql[j]) = "from" }
          IN IF froms = {} THEN {}
             ELSE LET cols == Slice(sql, i + 1, Min(froms) - 1)
                  IN IF cols = << "*" >> THEN { << "*" >> }
                     ELSE SplitCommas(cols, 1, <<>>)

\* Text after the first "where" up to the first "group"/"order" or the end.
where_clause(sql) ==
  LET ws == { i \in 1..Len(sql) : Lower(sql[i]) = "where" }
  IN IF ws = {} THEN <<>>
     ELSE LET i == Min(ws)
              stops == { j \in (i + 1)..Len(sql) :
                           Lower(sql[j]) \in { "group", "order" } }
              last == IF stops = {} THEN Len(sql) ELSE Min(stops) - 1
          IN Slice(sql, i + 1, last)

\* re.sub(r"\s+", " ", s).strip().lower()
normalized_space(s) == LowerSeq(s)

\* re.sub(r":\w+", "WILDCARD", a) on one token
AuthToken(t) == IF t = ":uid" THEN "WILDCARD" ELSE t

\* numbers and quoted strings of the user clause become WILDCARD
UserToken(t) ==
  IF t \in NumTokens \/ t \in { "'alice'", "'drop'" } THEN "WILDCARD" ELSE t

implies_subset(user_where, auth_where) ==
  LET u == normalized_space(user_where)
      a == normalized_space(auth_where)
      auth_tokens == { AuthToken(a[i]) : i \in 1..Len(a) }
      user_tokens == { UserToken(u[i]) : i \in 1..Len(u) }
  IN IF a = <<>> THEN u = <<>>
     ELSE auth_tokens \subseteq user_tokens

\* contained_by with the authorized-table rule tested before the
\* allowed-table rule.
contained_by_swapped(user_sql, auth_sql, allowed_tables, allowed_cols) ==
  LET safety   == basic_static_safety_checks(user_sql)
      u_tables == extract_tables(user_sql)
      a_tables == extract_tables(auth_sql)
      u_cols   == extract_columns(user_sql)
      a_cols   == extract_columns(auth_sql)
  IN IF ~safety[1] THEN << FALSE, safety[2] >>
     ELSE IF u_tables = {} THEN
       << FALSE, << "Could not extract table(s) from user query." >> >>
     ELSE IF ~(u_tables \subseteq a_tables) THEN
       << FALSE, << "User tables must be a subset of authorized tables." >> >>
     ELSE IF ~(u_tables \subseteq allowed_tables) THEN
       << FALSE, << "User tables are not all in allowed tables." >> >>
     ELSE IF << "*" >> \in u_cols /\ << "*" >> \notin a_cols THEN
       << FALSE, << "User selects '*' but authorized query does not allow '*'" >> >>
     ELSE IF << "*" >> \notin a_cols /\ << "*" >> \notin u_cols
             /\ ~(u_cols \subseteq a_cols) THEN
       << FALSE, << "User columns must be subset of authorized columns." >> >>
     ELSE IF ~implies_subset(where_clause(user_sql), where_clause(auth_sql)) THEN
       << FALSE, << "WHERE clause of user query is not a subset of authorized query (heuristic)." >> >>
     ELSE << TRUE, << "Passed static containment checks." >> >>

\* Returns <<ok, reasons>>.
contained_by(user_sql, auth_sql, allowed_tables, allowed_cols) ==
  LET safety   == basic_static_safety_checks(user_sql)
      u_tables == extract_tables(user_sql)
      a_tables == extract_tables(auth_sql)
      u_cols   == extract_columns(user_sql)
      a_cols   == extract_columns(auth_sql)
  IN IF ~safety[1] THEN << FALSE, safety[2] >>
     ELSE IF u_tables = {} THEN
       << FALSE, << "Could not extract table(s) from user query." >> >>
     ELSE IF ~(u_tables \subseteq allowed_tables) THEN
       << FALSE, << "User tables are not all in allowed tables." >> >>
     ELSE IF ~(u_tables \subseteq a_tables) THEN
       << FALSE, << "User tables must be a subset of authorized tables." >> >>
     ELSE IF << "*" >> \in u_cols /\ << "*" >> \notin a_cols THEN
       << FALSE, << "User selects '*' but authorized query does not allow '*'" >> >>
     ELSE IF << "*" >> \notin a_cols /\ << "*" >> \notin u_cols
             /\ ~(u_cols \subseteq a_cols) THEN
       << FALSE, << "User columns must be subset of authorized columns." >> >>
     ELSE IF ~implies_subset(where_clause(user_sql), where_clause(auth_sql)) THEN
       << FALSE, << "WHERE clause of user query is not a subset of authorized query (heuristic)." >> >>
     ELSE << TRUE, << "Passed static containment checks." >> >>

----------------------------------------------------------------------------
(* The registry (authorized_queries.json) and the environment              *)

\* json.load(open("authorized_queries.json")): the registered queries.
auth_list ==
  << [ id |-> "users_by_id",
       sql |-> << "SELECT", "id", ",", "username", "FROM", "Users",
                  "WHERE", "id", "=", ":uid" >>,
       allowed_tables |-> { "Users", "Orders" },
       allowed_columns |-> { "id", "username" },
       params |-> << "uid" >> ],
     [ id |-> "all_orders",
       sql |-> << "SELECT", "*", "FROM", "Orders" >>,
       allowed_tables |-> { "Orders" },
       allowed_columns |-> { "*" },
       params |-> <<>> ] >>

\* What llm_containment_hint may return: None (unknown), True or False.  The
\* shipped stub returns None; submit handles all three.
llm_containment_hint == { "None", "True", "False" }

\* The message of an exception raised by the dataset engine.
EngineError == "sqlite3.OperationalError"

\* What a query can return: the columns of cursor.description and the
\* fetched rows.
ResultSets ==
  { [ cols |-> << "id", "username" >>, rows |-> <<>> ],
    [ cols |-> << "id", "username" >>, rows |-> << << "1", "alice" >> >> ],
    [ cols |-> << "id", "username" >>,
      rows |-> << << "1", "alice" >>, << "2", "bob" >> >> ] }

\* The data tables of data/breachit.db as the handler sees them: what the
\* authorized query and what the user query return when they run.  submit
\* only reads them.
Datasets == [ authorized : ResultSets, user : ResultSets ]

\* What one cursor.execute + fetchall does: it raises, or yields the answer.
Answer(raised, rs) ==
  [ raised |-> raised,
    cols   |-> IF raised THEN <<>> ELSE rs.cols,
    rows   |-> IF raised THEN <<>> ELSE rs.rows ]

NotRun == [ raised |-> FALSE, cols |-> <<>>, rows |-> <<>> ]

----------------------------------------------------------------------------
(* app.py                                                                  *)

\* dict(zip(cols, r)): keys in first-occurrence order, a repeated column
\* keeps the value of its last occurrence.
DictRow(cols, r) ==
  LET first == { i \in 1..Len(cols) : \A j \in 1..(i - 1) : cols[j] # cols[i] }
      RECURSIVE Keys(_)
      Keys(i) == IF i > Len(cols) THEN <<>>
                 ELSE (IF i \in first THEN << cols[i] >> ELSE <<>>) \o Keys(i + 1)
      keys == Keys(1)
      LastOf(k) == CHOOSE i \in 1..Len(cols) :
                     cols[i] = k /\ \A j \in (i + 1)..Len(cols) : cols[j] # k
  IN [ keys |-> keys, vals |-> [ n \in 1..Len(keys) |-> r[LastOf(keys[n])] ] ]

\* run_query with the exception swallowed: a failed execution looks like
\* an empty result.
run_query_swallows(out) ==
  [ raised |-> FALSE,
    rows   |-> IF out.raised THEN <<>>
               ELSE [ i \in 1..Len(out.rows) |-> DictRow(out.cols, out.rows[i]) ],
    opened |-> 1,
    closed |-> 1 ]

\* run_query: opens a connection, executes, closes it in `finally`.
\* Returns what the caller sees and the connections opened and closed.
run_query(out) ==
  [ raised |-> out.raised,
    rows   |-> IF out.raised THEN <<>>
               ELSE [ i \in 1..Len(out.rows) |-> DictRow(out.cols, out.rows[i]) ],
    opened |-> 1,
    closed |-> 1 ]

\* The except-branch of submit: a connection opened without try/finally;
\* conn.close() is reached only when execute and fetchall did not raise.
fallback_query(out) ==
  [ raised |-> out.raised,
    rows   |-> IF out.raised THEN <<>>
               ELSE [ i \in 1..Len(out.rows) |-> DictRow(out.cols, out.rows[i]) ],
    opened |-> 1,
    closed |-> IF out.raised THEN 0 ELSE 1 ]

\* log_breach without conn.commit(): it returns, nothing is persisted.
log_breach_no_commit(authorized_id, user_sql, reason, superset, meta, now, insert_ok) ==
  [ raised |-> ~insert_ok, rows |-> <<>>, opened |-> 1, closed |-> 1 ]

\* log_breach: INSERT one row and commit; the connection is closed in
\* `finally`.  insert_ok is whether execute/commit succeeded.
log_breach(authorized_id, user_sql, reason, superset, meta, now, insert_ok) ==
  [ raised |-> ~insert_ok,
    rows   |-> IF insert_ok
               THEN << [ authorized_id |-> authorized_id,
                         user_sql      |-> user_sql,
                         reason        |-> reason,
                         is_superset   |-> IF superset THEN 1 ELSE 0,
                         created_at    |-> now,
                         meta_json     |-> meta ] >>
               ELSE <<>>,
    opened |-> 1,
    closed |-> 1 ]

\* next((a for a in auth_list if a["id"] == authorized_id), None)
AuthIndex(authorized_id) ==
  LET hits == { i \in 1..Len(auth_list) : auth_list[i].id = authorized_id }
  IN IF hits = {} THEN 0 ELSE Min(hits)

\* The combination with the hint left out.
StaticOrHintRejects_IgnoresHint(static_ok, hint) == ~static_ok

\* `if not static_ok or hint is False`
StaticOrHintRejects(static_ok, hint) == ~static_ok \/ hint = "False"

\* The reason without the hint's part.
RejectReason_NoHint(reasons, hint) == reasons

\* "; ".join(reasons + (["LLM hint: not contained"] if hint is False else []))
RejectReason(reasons, hint) ==
  reasons \o (IF hint = "False" THEN << "LLM hint: not contained" >> ELSE <<>>)

\* auth_sql.replace(":", "@") and {f"@{k}": v for k, v in params.items()}
NamedToken(t) == IF t = ":uid" THEN "@uid" ELSE t

NamedSql(auth_sql) == [ i \in 1..Len(auth_sql) |-> NamedToken(auth_sql[i]) ]

NamedParams(params) ==
  [ i \in 1..Len(params) |->
      << (IF params[i][1] = "uid" THEN "@uid" ELSE params[i][1]), params[i][2] >> ]

\* params.get(pname): the value bound to pname, None when absent
ParamGet(params, pname) ==
  LET hits == { i \in 1..Len(params) : params[i][1] = pname }
  IN IF hits = {} THEN "None" ELSE params[Min(hits)][2]

\* f":{pname}"
Placeholder(pname) == IF pname = "uid" THEN ":uid" ELSE pname

\* The declared parameters whose placeholder occurs in the template, in
\* declaration order.
RECURSIVE UsedParams(_, _, _)
UsedParams(auth_sql, declared, i) ==
  IF i > Len(declared) THEN <<>>
  ELSE (IF \E k \in 1..Len(auth_sql) : auth_sql[k] = Placeholder(declared[i])
          THEN << declared[i] >> ELSE <<>>)
       \o UsedParams(auth_sql, declared, i + 1)

\* auth_sql_q: every used placeholder replaced by "?"
PositionalSql(auth_sql, declared) ==
  LET used == UsedParams(auth_sql, declared, 1)
  IN [ i \in 1..Len(auth_sql) |->
         IF \E k \in 1..Len(used) : auth_sql[i] = Placeholder(used[k])
           THEN "?" ELSE auth_sql[i] ]

\* ordered_values
PositionalParams(auth_sql, declared, params) ==
  LET used == UsedParams(auth_sql, declared, 1)
  IN [ k \in 1..Len(used) |-> << "?", ParamGet(params, used[k]) >> ]

\* The runtime guard before the user query runs: "" when it passes, else
\* the ValueError message.
runtime_guard(user_sql) ==
  IF ~(Len(user_sql) >= 1 /\ Lower(user_sql[1]) = "select")
    THEN "Only SELECT statements allowed."
  ELSE IF SemicolonAfterFirst(user_sql)
    THEN "Semicolons/multiple statements not allowed."
  ELSE ""

\* tupleize: rows as value tuples in the column order of the first row.
tupleize(rows) ==
  IF rows = <<>> THEN <<>>
  ELSE LET cols == rows[1].keys
           Get(r, c) ==
             IF \E n \in 1..Len(r.keys) : r.keys[n] = c
               THEN r.vals[CHOOSE n \in 1..Len(r.keys) : r.keys[n] = c]
               ELSE "None"
       IN [ i \in 1..Len(rows) |-> [ n \in 1..Len(cols) |-> Get(rows[i], cols[n]) ] ]

\* set(...)
ToSet(seq) == { seq[i] : i \in 1..Len(seq) }

\* user_set.issubset(auth_set)
issubset(user_set, auth_set) == user_set \subseteq auth_set

----------------------------------------------------------------------------
(* The submit handler                                                      *)

\* What is observed of one evaluation: the JSON response with its HTTP
\* status (kind "fault": an exception left submit, no body was built) and
\* the steps the handler took.
NoResponse ==
  [ authorized_id |-> "", user_sql |-> <<>>, hint |-> "None",
    kind |-> "none", http |-> 0, ok |-> FALSE, decision |-> "none",
    reason |-> <<>>, has_rows |-> FALSE, user_rows |-> <<>>,
    authorized_rows |-> <<>>,
    static_ran |-> FALSE, static_ok |-> FALSE, executions |-> <<>>,
    auth_done |-> FALSE, user_done |-> FALSE,
    log_calls |-> 0, log_raised |-> FALSE, logged |-> <<>>,
    opened |-> 0, closed |-> 0 ]

\* The statement handed to cursor.execute and how it ended.
Execution(who, sql, bind, out) ==
  [ who |-> who, sql |-> sql, bind |-> bind, raised |-> out.raised ]

\* return jsonify({"ok": False, "error": ...}), 400
UnknownId(r) ==
  [ r EXCEPT !.kind = "client_error", !.http = 400,
             !.reason = << "Unknown authorized query id." >> ]

\* An audit write followed by `return jsonify(...)`: the response is built
\* only when log_breach returned.
LogThenReturn(r, lg, decision, http, reason, with_rows) ==
  LET r1 == [ r EXCEPT !.log_calls = @ + 1, !.log_raised = lg.raised,
                       !.logged = lg.rows,
                       !.opened = @ + lg.opened, !.closed = @ + lg.closed ]
  IN IF lg.raised
       THEN [ r1 EXCEPT !.kind = "fault", !.http = 500 ]
       ELSE [ r1 EXCEPT !.kind = "decision", !.http = http,
                        !.decision = decision, !.reason = reason,
                        !.has_rows = with_rows ]

\* The effect of one evaluation on the state.
Finish(r) ==
  /\ response' = r
  /\ Breaches' = Breaches \o r.logged
  /\ openConns' = openConns + (r.opened - r.closed)

\* Lines 106-139 of submit: the user query, the comparison, the verdict.
UserPhase(r, auth, params, now) ==
  LET guard == runtime_guard(r.user_sql)
  IN \E u_raised \in (IF guard = "" THEN BOOLEAN ELSE { FALSE }) :
       LET ran  == guard = ""
           u    == IF ran THEN Answer(u_raised, dataset.user) ELSE NotRun
           uq   == run_query(u)
           r1   == IF ran
                     THEN [ r EXCEPT !.executions =
                                       Append(@, Execution("user", r.user_sql, <<>>, u)),
                                     !.opened = @ + uq.opened,
                                     !.closed = @ + uq.closed ]
                     ELSE r
       IN IF ~ran \/ uq.raised
            THEN LET reason == << "User query execution error: ",
                                  IF ran THEN EngineError ELSE guard >>
                 IN \E insert_ok \in BOOLEAN :
                      Finish(LogThenReturn(r1,
                        log_breach(r.authorized_id, r.user_sql, reason, FALSE,
                                   [ params |-> params, authorized_sql |-> <<>> ],
                                   now, insert_ok),
                        "error", 400, reason, FALSE))
            ELSE LET r2 == [ r1 EXCEPT !.user_done = TRUE, !.user_rows = uq.rows ]
                     user_set == ToSet(tupleize(r2.user_rows))
                     auth_set == ToSet(tupleize(r2.authorized_rows))
                 IN IF issubset(user_set, auth_set)
                      THEN Finish([ r2 EXCEPT
                             !.kind = "decision", !.http = 200, !.ok = TRUE,
                             !.decision = "safe", !.has_rows = TRUE,
                             !.reason = << "User results are a subset (or equal) of authorized results." >> ])
                      ELSE LET reason == << "User results are NOT a subset of authorized results." >>
                           IN \E insert_ok \in BOOLEAN :
                                Finish(LogThenReturn(r2,
                                  log_breach(r.authorized_id, r.user_sql, reason, TRUE,
                                             [ params |-> params, authorized_sql |-> auth.sql ],
                                             now, insert_ok),
                                  "breach", 403, reason, TRUE))

\* Lines 83-104 of submit: the authorized query, named parameters first,
\* positional parameters when that raised.
AuthPhase(r, auth, params, now) ==
  \E p_raised \in BOOLEAN :
    LET p  == Answer(p_raised, dataset.authorized)
        pq == run_query(p)
        r1 == [ r EXCEPT !.executions =
                           Append(@, Execution("auth", NamedSql(auth.sql),
                                               NamedParams(params), p)),
                         !.opened = @ + pq.opened, !.closed = @ + pq.closed ]
    IN IF ~pq.raised
         THEN UserPhase([ r1 EXCEPT !.auth_done = TRUE, !.authorized_rows = pq.rows ],
                        auth, params, now)
         ELSE \E f_raised \in BOOLEAN :
                LET f  == Answer(f_raised, dataset.authorized)
                    fq == fallback_query(f)
                    r2 == [ r1 EXCEPT !.executions =
                              Append(@, Execution("auth",
                                        PositionalSql(auth.sql, auth.params),
                                        PositionalParams(auth.sql, auth.params, params), f)),
                            !.opened = @ + fq.opened, !.closed = @ + fq.closed ]
                IN IF fq.raised
                     THEN Finish([ r2 EXCEPT !.kind = "fault", !.http = 500 ])
                     ELSE UserPhase([ r2 EXCEPT !.auth_done = TRUE,
                                                !.authorized_rows = fq.rows ],
                                    auth, params, now)

\* POST /api/submit
submit(authorized_id, user_sql, params) ==
  /\ nEvals < MaxEvals
  /\ nEvals' = nEvals + 1
  /\ UNCHANGED << dataset, cb_args, cb_verdict >>
  /\ LET r0  == [ NoResponse EXCEPT !.authorized_id = authorized_id,
                                    !.user_sql = user_sql ]
         idx == AuthIndex(authorized_id)
     IN IF idx = 0 THEN Finish(UnknownId(r0))
        ELSE
          LET auth    == auth_list[idx]
              verdict == contained_by(user_sql, auth.sql, auth.allowed_tables,
                                      auth.allowed_columns)
          IN \E hint \in llm_containment_hint :
               LET r1 == [ r0 EXCEPT !.static_ran = TRUE, !.static_ok = verdict[1],
                                     !.hint = hint ]
               IN IF StaticOrHintRejects(verdict[1], hint)
                    THEN LET reason == RejectReason(verdict[2], hint)
                         IN \E insert_ok \in BOOLEAN :
                              Finish(LogThenReturn(r1,
                                log_breach(authorized_id, user_sql, reason, FALSE,
                                           [ params |-> params, authorized_sql |-> <<>> ],
                                           nEvals, insert_ok),
                                "rejected", 200, reason, FALSE))
                    ELSE AuthPhase(r1, auth, params, nEvals)

----------------------------------------------------------------------------
(* Inputs                                                                  *)

AuthorizedIds == { "users_by_id", "all_orders", "no_such_id" }

UserQueries ==
  { << "select", "id", ",", "username", "from", "Users", "where", "id", "=", "1" >>,
    << "select", "*", "from", "Users" >>,
    << "select", "id", "from", "Users", ";", "drop", "table", "Users" >> }

ParamInputs == { << << "uid", "1" >> >> }

\* No call of contained_by outside submit is in progress.
NoArgs == [ user_sql |-> <<>>, auth |-> 0 ]

Init ==
  /\ Breaches = <<>>
  /\ response = NoResponse
  /\ openConns = 0
  /\ nEvals = 0
  /\ dataset \in Datasets
  /\ cb_args = NoArgs
  /\ cb_verdict = <<>>

Next ==
  \E authorized_id \in AuthorizedIds, user_sql \in UserQueries, params \in ParamInputs :
    submit(authorized_id, user_sql, params)

Spec == Init /\ [][Next]_vars

----------------------------------------------------------------------------
(* contained_by on its own: the inputs are drawn in the initial state and  *)
(* the one action applies the function.                                    *)

CBHeads == { << "select" >>, << "SELECT" >>,
             << "drop", "table", "Users", ";", "select" >> }

CBCols == { << "*" >>, << "id" >>, << "ID", ",", "username" >>,
            << "id", ",", "email" >>, << "id", ",", "*" >>, <<>> }

CBFroms == { << "from", "Users" >>, << "FROM", "Users", "u" >>,
             << "from", "users" >>, << "from", "Orders" >>,
             << "from", "Products" >>, << "from", "Users", ",", "Orders" >>,
             << "from", "1" >>, <<>> }

CBWheres == { <<>>, << "where", "id", "=", "1" >>,
              << "WHERE", "id", "=", "'alice'" >>,
              << "where", "id", "=", "1", "OR", "id", "=", "2" >>,
              << "where", "id", "=", "1", "order", "by", "id" >>,
              << "where", "username", "=", "'drop'" >>,
              << "where", "id", "=", ":uid" >>,
              << "where", "id" >> }

CBTails == { <<>>, << ";" >>, << "--" >>,
             << "union", "select", "*", "from", "Orders" >> }

CBQueries ==
  { h \o c \o f \o w \o t :
      h \in CBHeads, c \in CBCols, f \in CBFroms, w \in CBWheres, t \in CBTails }

InitCB ==
  /\ Breaches = <<>>
  /\ response = NoResponse
  /\ openConns = 0
  /\ nEvals = 0
  /\ dataset = CHOOSE d \in Datasets : d.authorized.rows = <<>> /\ d.user.rows = <<>>
  /\ cb_args \in [ user_sql : CBQueries, auth : 1..Len(auth_list) ]
  /\ cb_verdict = <<>>

call_contained_by ==
  /\ cb_verdict = <<>>
  /\ cb_args.auth > 0
  /\ LET auth == auth_list[cb_args.auth]
     IN cb_verdict' = contained_by(cb_args.user_sql, auth.sql,
                                   auth.allowed_tables, auth.allowed_columns)
  /\ UNCHANGED << Breaches, response, openConns, nEvals, dataset, cb_args >>

NextCB == call_contained_by

SpecCB == InitCB /\ [][NextCB]_vars

----------------------------------------------------------------------------
(* Properties of one evaluation (Spec)                                     *)

\* The tuple-set of a result: its rows as dicts, tupleized.
TupleSet(rs) == ToSet(tupleize(run_query(Answer(FALSE, rs)).rows))

\* The user's result tuple-set is a subset of the authorized one.
DatasetSubset == \A t \in TupleSet(dataset.user) : t \in TupleSet(dataset.authorized)

\* An execution of the given query that returned rows.
Ran(who) ==
  \E i \in 1..Len(response.executions) :
    response.executions[i].who = who /\ ~response.executions[i].raised

BothRan == Ran("auth") /\ Ran("user")

\* Some dataset execution raised.
Raised(who) ==
  \E i \in 1..Len(response.executions) :
    response.executions[i].who = who /\ response.executions[i].raised

\* The user query was reached and did not run to completion.
UserFailed ==
  \/ Raised("user")
  \/ Ran("auth") /\ runtime_guard(response.user_sql) # ""

\* C1: for a known authorized id the outcome is `safe` exactly when the
\* static analysis passed, both queries executed with the user's tuple-set
\* a subset of the authorized tuple-set, and the hint is not False.
C1_SafeIff ==
  response.static_ran =>
    ( response.decision = "safe"
      <=> ( /\ response.static_ok
            /\ response.hint # "False"
            /\ BothRan
            /\ DatasetSubset ) )

C1_Witness ==
  /\ response.decision = "safe"
  /\ dataset.user.rows # <<>>
  /\ response.hint = "True"

C3_NotSubsetIsBreach ==
  ( BothRan /\ ~DatasetSubset )
  => /\ response.decision = "breach"
     /\ Len(response.logged) = 1
     /\ response.logged[1].is_superset = 1

\* C3, on the paths where the audit INSERT succeeded.
C3_WhenLogged ==
  ( BothRan /\ ~DatasetSubset /\ ~response.log_raised )
  => /\ response.decision = "breach"
     /\ Len(response.logged) = 1
     /\ response.logged[1].is_superset = 1

\* C4: a query text that fails basic_static_safety_checks, submitted for a
\* known id: the outcome is `rejected` and no audit record with
\* is_superset=1 is written.
C4_ValidatorFailIsRejected ==
  ( response.static_ran /\ ~basic_static_safety_checks(response.user_sql)[1] )
  => /\ response.decision = "rejected"
     /\ \A i \in 1..Len(response.logged) : response.logged[i].is_superset = 0

\* C4, on the paths where the audit INSERT succeeded.
C4_WhenLogged ==
  ( /\ response.static_ran
    /\ ~basic_static_safety_checks(response.user_sql)[1]
    /\ ~response.log_raised )
  => /\ response.decision = "rejected"
     /\ \A i \in 1..Len(response.logged) : response.logged[i].is_superset = 0

\* C5 as stated: every Decision returned is one of safe, rejected, breach,
\* and a failed user query ends with `rejected`.
C5_Original ==
  response.kind = "decision"
  => /\ response.decision \in { "safe", "rejected", "breach" }
     /\ UserFailed => response.decision = "rejected"

\* C5 amended: every Decision returned is one of safe, rejected, breach,
\* error; a failed user query is terminal with outcome `error` (HTTP 400,
\* no row payload), and `error` is returned for nothing else.
C5_DecisionOutcomes ==
  response.kind = "decision"
  => /\ response.decision \in { "safe", "rejected", "breach", "error" }
     /\ UserFailed <=> response.decision = "error"
     /\ response.decision = "error"
          => /\ response.http = 400
             /\ ~response.has_rows
             /\ response.reason[1] = "User query execution error: "

C5_Witness ==
  /\ response.kind = "decision"
  /\ response.decision = "error"
  /\ Raised("user")

\* C6: when log_breach raised, the Decision is still returned.
C6_DecisionDespiteLogFailure ==
  response.log_raised
  => /\ response.kind = "decision"
     /\ response.decision \in { "rejected", "error", "breach" }

\* C7: no evaluation ends with a connection still open.
C7_NoOpenConnection == openConns = 0

\* C8: a dataset execution that fails ends the evaluation at once with an
\* error Decision embedding the engine's message; no query is executed a
\* second time and no fault leaves the evaluation.  (Stated for the
\* evaluations whose audit write did not raise.)
C8_FailureEndsEvaluation ==
  ( ( Raised("auth") \/ Raised("user") ) /\ ~response.log_raised )
  => /\ response.kind = "decision"
     /\ response.decision \in { "error", "rejected" }
     /\ \E k \in 1..Len(response.reason) : response.reason[k] = EngineError
     /\ response.executions[Len(response.executions)].raised
     /\ \A i, j \in 1..Len(response.executions) :
          response.executions[i].who = response.executions[j].who => i = j

----------------------------------------------------------------------------
(* Properties of contained_by (SpecCB)                                     *)

\* Rule n of the structural rules is violated by the call's arguments.
RuleViolated(n) ==
  LET auth     == auth_list[cb_args.auth]
      u_tables == extract_tables(cb_args.user_sql)
      a_tables == extract_tables(auth.sql)
      u_star   == << "*" >> \in extract_columns(cb_args.user_sql)
      a_star   == << "*" >> \in extract_columns(auth.sql)
  IN CASE n = 1 -> u_tables = {}
       [] n = 2 -> \E t \in u_tables : t \notin auth.allowed_tables
       [] n = 3 -> \E t \in u_tables : t \notin a_tables
       [] n = 4 -> u_star /\ ~a_star
       [] n = 5 -> /\ ~u_star /\ ~a_star
                   /\ \E c \in extract_columns(cb_args.user_sql) :
                        c \notin extract_columns(auth.sql)
       [] n = 6 -> ~implies_subset(where_clause(cb_args.user_sql),
                                   where_clause(auth.sql))

RuleReasonText ==
  << "Could not extract table(s) from user query.",
     "User tables are not all in allowed tables.",
     "User tables must be a subset of authorized tables.",
     "User selects '*' but authorized query does not allow '*'",
     "User columns must be subset of authorized columns.",
     "WHERE clause of user query is not a subset of authorized query (heuristic)." >>

ViolatedRules == { n \in 1..6 : RuleViolated(n) }

\* C10: for a user query that passes the safety checks, a failing verdict
\* carries exactly one reason, that of the lowest-numbered violated rule,
\* and a passing verdict carries exactly the confirmatory reason.
C10_FirstFailingRule ==
  ( cb_verdict # <<>> /\ basic_static_safety_checks(cb_args.user_sql)[1] )
  => cb_verdict =
       IF ViolatedRules = {}
         THEN << TRUE, << "Passed static containment checks." >> >>
         ELSE << FALSE, << RuleReasonText[Min(ViolatedRules)] >> >>

C10_Witness ==
  /\ cb_verdict # <<>>
  /\ basic_static_safety_checks(cb_args.user_sql)[1]
  /\ { 2, 3, 6 } \subseteq ViolatedRules
  /\ cb_verdict[2] = << RuleReasonText[2] >>

====
